---- MODULE Spec2Model ----
(***************************************************************************)
(* Model of stt.py: a command-line dictation tool.  main() parses the      *)
(* arguments, optionally probes the audio input, records until silence     *)
(* (record_with_silence_detection, whose stop decision is taken in the     *)
(* per-block audio_callback run by the audio backend), sends the recording *)
(* to the transcription service and types the returned text.               *)
(*                                                                         *)
(* Time is counted in block periods: while the stream is open the backend  *)
(* has at most one block to deliver per period (a block that is not        *)
(* delivered before the next period is lost).  Loudness (volume_norm) is   *)
(* counted in units of 0.004, so that the literal 0.004 of the source is   *)
(* 1.  An audio block is represented by its loudness, the only thing the   *)
(* callback computes from it; np.concatenate is taken at block granularity *)
(* (blocks have a fixed positive number of frames, so the concatenation is *)
(* empty exactly when there is no block).                                  *)
(***************************************************************************)
EXTENDS Integers, Sequences, FiniteSets, TLC

VARIABLES
    args,             \* argparse result: list_devices, debug, test, threshold, timeout
    pc,               \* position of the foreground flow of control (main)
    recording,        \* SpeechRecognizer.recording
    audio_data,       \* SpeechRecognizer.audio_data: the blocks appended so far
    last_sound_time,  \* closure variable of record_with_silence_detection
    peak_volume,      \* closure variable of record_with_silence_detection
    now,              \* time.time()
    streamOpen,       \* the sd.InputStream of record_with_silence_detection is open
    pending,          \* the backend has a block to deliver in this period
    audio,            \* main's audio_data: what record_with_silence_detection returned
    text,             \* main's text: what transcribe_with_groq returned
    typed,            \* the calls pyautogui.write has received, in order
    requests,         \* number of groq_client.audio.transcriptions.create calls
    messages,         \* the set of messages printed so far
    probed,           \* the input-level probe of test_audio_input has run
    delivered,        \* history: the block of every audio_callback call of the session
    stopAt,           \* history: number of the call that took the stop decision, or 0
    loudAt,           \* history: time of the latest call with a block above the threshold
    sessionStart,     \* history: time.time() at the start of the session
    interrupted,      \* history: a KeyboardInterrupt arrived inside main's try block
    captureFailed,    \* history: the with-block of the recorder raised an Exception
    sample,           \* one float sample of the buffer given to writeframes
    frame             \* the int16 frame written for it, once it is encoded

vars == <<args, pc, recording, audio_data, last_sound_time, peak_volume, now,
          streamOpen, pending, audio, text, typed, requests, messages, probed,
          delivered, stopAt, loudAt, sessionStart, interrupted, captureFailed,
          sample, frame>>

(***************************************************************************)
(* Bounds of the model.                                                    *)
(***************************************************************************)
MaxLevel == 2        \* loudness of a block ranges over 0..MaxLevel
MaxThreshold == 1    \* --threshold ranges over 1..MaxThreshold
MaxTimeout == 2      \* --timeout ranges over 1..MaxTimeout
MaxSession == 3      \* a session is followed for at most MaxSession periods
MaxDen == 12         \* samples are the fractions n/d of [-1, 1] with d <= MaxDen

Levels == 0..MaxLevel
Thresholds == 1..MaxThreshold
Timeouts == 1..MaxTimeout
Texts == {"", "hello world"}

(***************************************************************************)
(* Program constants.                                                      *)
(***************************************************************************)
duration == 5        \* test_audio_input(duration=5)
LowLevel == 1        \* the literal 0.004 of the level warnings
NoteLevel == 13      \* the literal 0.05 of the low-volume note (12.5 units)
Int16Max == 32767    \* the scale factor of `audio_data * 32767`

NoAudio == [some |-> FALSE, val |-> <<>>]
NoText == [some |-> FALSE, val |-> ""]
Some(v) == [some |-> TRUE, val |-> v]

NoFrame == [done |-> FALSE, val |-> 0]
Samples == UNION {{[num |-> n, den |-> d] : n \in -d..d} : d \in 1..MaxDen}

Say(ms) == messages' = messages \cup ms

\* the program proper represents blocks by their loudness and leaves the
\* sample encoder alone
UnchangedCodec == UNCHANGED <<sample, frame>>

Init ==
    /\ args \in [list_devices : BOOLEAN, debug : BOOLEAN, test : BOOLEAN,
                 threshold : Thresholds, timeout : Timeouts]
    /\ pc = "main"
    /\ recording = FALSE
    /\ audio_data = <<>>
    /\ last_sound_time = 0
    /\ peak_volume = 0
    /\ now = 0
    /\ streamOpen = FALSE
    /\ pending = FALSE
    /\ audio = NoAudio
    /\ text = NoText
    /\ typed = <<>>
    /\ requests = 0
    /\ messages = {}
    /\ probed = FALSE
    /\ delivered = <<>>
    /\ stopAt = 0
    /\ loudAt = 0
    /\ sessionStart = 0
    /\ interrupted = FALSE
    /\ captureFailed = FALSE
    /\ sample = [num |-> 0, den |-> 1]
    /\ frame = NoFrame

Max(a, b) == IF a > b THEN a ELSE b

(***************************************************************************)
(* The decisions of the code, one operator per condition.                  *)
(***************************************************************************)
\* main: `if args.test or args.debug` guards the call of test_audio_input
WantsTest(a) == a.test \/ a.debug

\* test_audio_input: `if not self.debug: return True` skips the probe
ProbeSkipped(a) == ~a.debug

\* test_audio_input: `if max_level < 0.004` reports a failed input test
LevelsTooLow(max_level) == max_level < LowLevel

\* audio_callback: `if self.recording` guards append and stop decision
Accepts_Always(rec) == TRUE
Accepts(rec) == rec

\* audio_callback: `self.audio_data.append(indata.copy())`
Appended_Overwrite(blocks, block) == <<block>>
Appended(blocks, block) == Append(blocks, block)

\* audio_callback: `if volume_norm > self.silence_threshold`
IsSound_Inverted(volume_norm, threshold) == volume_norm < threshold
IsSound_AtLeast(volume_norm, threshold) == volume_norm >= threshold
IsSound(volume_norm, threshold) == volume_norm > threshold

\* audio_callback: `last_sound_time = time.time()` on a block with sound
SoundTime_Stale(t, last) == last
SoundTime(t, last) == t

\* audio_callback: `elif time.time() - last_sound_time > self.silence_timeout`
SilentTooLong_AtTimeout(t, last, timeout) == t - last >= timeout
SilentTooLong_Swapped(t, last, timeout) == last - t > timeout
SilentTooLong_Always(t, last, timeout) == TRUE
SilentTooLong(t, last, timeout) == t - last > timeout

\* record_with_silence_detection: `if self.audio_data: return concatenate(...)`
RecordResult(blocks) == IF blocks # <<>> THEN Some(blocks) ELSE NoAudio

\* record_with_silence_detection: `except Exception: ... return None`
CaptureErrorResult_Partial(blocks) == RecordResult(blocks)
CaptureErrorResult(blocks) == NoAudio

\* main: `if audio_data is not None and len(audio_data) > 0`
HasAudio_Always(a) == TRUE
HasAudio(a) == a.some /\ Len(a.val) > 0

\* transcribe_with_groq: `except Exception: ... return None`
TranscribeErrorResult_Message == Some("Transcription error")
TranscribeErrorResult == NoText

\* main: `if text` (None and the empty string are both false)
Truthy(t) == t.some /\ t.val # ""

\* main: `if not args.test: type_text(text)`
ShouldType_Always(a) == TRUE
ShouldType(a) == ~a.test

\* type_text: `pyautogui.write(text)`, one call with main's text
Written_Twice(calls, t) == calls \o <<t, t>>
Written(calls, t) == Append(calls, t)

\* main: `recognizer.recording = False` in the KeyboardInterrupt handler
InterruptedRecording_Kept(rec) == rec
InterruptedRecording(rec) == FALSE

(***************************************************************************)
(* main, up to the try block.                                              *)
(***************************************************************************)
UnchangedRecorder ==
    UNCHANGED <<recording, audio_data, last_sound_time, peak_volume,
                streamOpen, pending, delivered, stopAt, loudAt, sessionStart,
                captureFailed>>

UnchangedOutput == UNCHANGED <<audio, text, typed, requests>>

\* main: --list-devices lists and returns; otherwise the recognizer is built
ParseArgs ==
    /\ pc = "main"
    /\ IF args.list_devices
         THEN /\ Say({"AVAILABLE AUDIO INPUT DEVICES"})
              /\ pc' = "done"
         ELSE /\ UNCHANGED messages
              /\ pc' = IF WantsTest(args) THEN "test_audio" ELSE "try"
    /\ UnchangedRecorder /\ UnchangedOutput
    /\ UNCHANGED <<args, now, probed, interrupted>>
    /\ UnchangedCodec

\* test_audio_input without debug: returns True at once
TestAudioSkip ==
    /\ pc = "test_audio"
    /\ ProbeSkipped(args)
    /\ pc' = "try"
    /\ UnchangedRecorder /\ UnchangedOutput
    /\ UNCHANGED <<args, now, probed, messages, interrupted>>
    /\ UnchangedCodec

\* test_audio_input: the probe stream cannot be opened
TestAudioOpenFail ==
    /\ pc = "test_audio"
    /\ ~ProbeSkipped(args)
    /\ Say({"Testing audio input device", "Error testing audio input",
            "Audio input test failed or showed very low levels."})
    /\ pc' = "prompt"
    /\ UnchangedRecorder /\ UnchangedOutput
    /\ UNCHANGED <<args, now, probed, interrupted>>
    /\ UnchangedCodec

\* test_audio_input: the probe runs for `duration` seconds; max_level is the
\* loudest block it saw (0 when none arrived)
TestAudioProbe(max_level) ==
    /\ pc = "test_audio"
    /\ ~ProbeSkipped(args)
    /\ probed' = TRUE
    /\ now' = now + duration
    /\ IF LevelsTooLow(max_level)
         THEN /\ Say({"Testing audio input device", "Audio Input Test Results",
                      "WARNING: Very low audio levels detected!",
                      "Audio input test failed or showed very low levels."})
              /\ pc' = "prompt"
         ELSE /\ Say({"Testing audio input device", "Audio Input Test Results",
                      "Audio input appears to be working"}
                     \cup (IF max_level < NoteLevel
                             THEN {"Note: Audio levels are a bit low"} ELSE {})
                     \cup {"Saved debug audio to audio_test.wav"})
              /\ pc' = "try"
    /\ UnchangedRecorder /\ UnchangedOutput
    /\ UNCHANGED <<args, interrupted>>
    /\ UnchangedCodec

\* main: `retry = input("Continue anyway? (y/n): ")`
Prompt(retry) ==
    /\ pc = "prompt"
    /\ IF retry = "y"
         THEN /\ UNCHANGED messages
              /\ pc' = "try"
         ELSE /\ Say({"Exiting. Please check your microphone settings."})
              /\ pc' = "done"
    /\ UnchangedRecorder /\ UnchangedOutput
    /\ UNCHANGED <<args, now, probed, interrupted>>
    /\ UnchangedCodec

(***************************************************************************)
(* record_with_silence_detection.                                          *)
(***************************************************************************)

\* the frame of record_with_silence_detection is left: its locals
\* last_sound_time and peak_volume are gone, and the closed stream has no
\* block to deliver
LocalsDropped ==
    /\ last_sound_time' = 0
    /\ peak_volume' = 0
    /\ pending' = FALSE

\* main prints "Ready to record"; the recorder initialises the session
StartRecording ==
    /\ pc = "try"
    /\ recording' = TRUE
    /\ audio_data' = <<>>
    /\ last_sound_time' = now
    /\ peak_volume' = 0
    /\ sessionStart' = now
    /\ delivered' = <<>>
    /\ stopAt' = 0
    /\ loudAt' = now
    /\ Say({"Ready to record. Speak now...",
            IF args.debug THEN "Listening... (speak or press Ctrl+C to stop)"
                          ELSE "Listening..."})
    /\ pc' = "open"
    /\ UnchangedOutput
    /\ UNCHANGED <<args, now, streamOpen, pending, probed, interrupted,
                   captureFailed>>
    /\ UnchangedCodec

\* `with sd.InputStream(callback=audio_callback, ...)`: the stream opens
OpenStream ==
    /\ pc = "open"
    /\ streamOpen' = TRUE
    /\ pending' = TRUE
    /\ pc' = "poll"
    /\ UnchangedOutput
    /\ UNCHANGED <<args, recording, audio_data, last_sound_time, peak_volume,
                   now, messages, probed, delivered, stopAt, loudAt,
                   sessionStart, interrupted, captureFailed>>
    /\ UnchangedCodec

\* an Exception leaves the with-block: the stream failed to open, or the
\* backend raised while the stream was open; `except Exception` returns None
CaptureError ==
    /\ pc \in {"open", "poll"}
    /\ streamOpen' = FALSE
    /\ captureFailed' = TRUE
    /\ IF args.debug THEN Say({"Error recording audio"}) ELSE UNCHANGED messages
    /\ audio' = CaptureErrorResult(audio_data)
    /\ pc' = "returned"
    /\ LocalsDropped
    /\ UNCHANGED <<args, recording, audio_data, now, text, typed, requests,
                   probed, delivered, stopAt, loudAt, sessionStart,
                   interrupted>>
    /\ UnchangedCodec

\* audio_callback(indata, frames, time_info, status), run by the backend
\* while the stream is open; volume_norm is the loudness of indata.  A
\* status flag is only printed (in debug mode, on the level-meter line) and
\* decides nothing, so it is not an input here.
AudioCallback(volume_norm) ==
    /\ streamOpen
    /\ pending
    /\ pending' = FALSE
    /\ peak_volume' = Max(peak_volume, volume_norm)
    /\ IF args.debug THEN Say({"Level"}) ELSE UNCHANGED messages
    /\ IF Accepts(recording)
         THEN /\ audio_data' = Appended(audio_data, volume_norm)
              /\ IF IsSound(volume_norm, args.threshold)
                   THEN /\ last_sound_time' = SoundTime(now, last_sound_time)
                        /\ UNCHANGED recording
                   ELSE /\ UNCHANGED last_sound_time
                        /\ IF SilentTooLong(now, last_sound_time, args.timeout)
                             THEN recording' = FALSE
                             ELSE UNCHANGED recording
         ELSE UNCHANGED <<audio_data, last_sound_time, recording>>
    /\ delivered' = Append(delivered, volume_norm)
    /\ stopAt' = IF recording /\ ~recording' THEN Len(delivered) + 1 ELSE stopAt
    /\ loudAt' = IF volume_norm > args.threshold THEN now ELSE loudAt
    /\ UnchangedOutput
    /\ UNCHANGED <<args, pc, now, streamOpen, probed, sessionStart,
                   interrupted, captureFailed>>
    /\ UnchangedCodec

\* a block period passes while the recorder is opening the stream or
\* waiting (the only time the clock is read afterwards is in the callback);
\* with the stream open the backend has the next block
Tick ==
    /\ pc \in {"open", "poll"}
    /\ now - sessionStart < MaxSession
    /\ now' = now + 1
    /\ pending' = streamOpen
    /\ UnchangedOutput
    /\ UNCHANGED <<args, pc, recording, audio_data, last_sound_time,
                   peak_volume, streamOpen, messages, probed, delivered,
                   stopAt, loudAt, sessionStart, interrupted, captureFailed>>
    /\ UnchangedCodec

\* `while self.recording: time.sleep(0.1)`: one reading of the flag by the
\* foreground; while it is true the loop sleeps and reads again, when it is
\* false the with-block is left and the stream is closed
WaitLoop ==
    /\ pc = "poll"
    /\ IF recording
         THEN /\ pc' = "poll"
              /\ UNCHANGED streamOpen
         ELSE /\ pc' = "closed"
              /\ streamOpen' = FALSE
    /\ UnchangedOutput
    /\ UNCHANGED <<args, recording, audio_data, last_sound_time, peak_volume,
                   now, pending, messages, probed, delivered, stopAt, loudAt,
                   sessionStart, interrupted, captureFailed>>
    /\ UnchangedCodec

\* after the with-block: diagnostics, then the buffer or None is returned
FinishRecording ==
    /\ pc = "closed"
    /\ audio' = RecordResult(audio_data)
    /\ IF args.debug
         THEN Say({"Recording finished"}
                  \cup (IF peak_volume < LowLevel
                          THEN {"WARNING: Very little audio was detected."}
                          ELSE {})
                  \cup (IF audio_data # <<>> THEN {"Max audio amplitude"} ELSE {}))
         ELSE UNCHANGED messages
    /\ pc' = "returned"
    /\ LocalsDropped
    /\ UNCHANGED <<args, recording, audio_data, streamOpen, now, text, typed,
                   requests, probed, delivered, stopAt, loudAt, sessionStart,
                   interrupted, captureFailed>>
    /\ UnchangedCodec

(***************************************************************************)
(* main: the rest of the try block.                                        *)
(***************************************************************************)
\* `if audio_data is not None and len(audio_data) > 0`, save_debug_audio
CheckAudio ==
    /\ pc = "returned"
    /\ IF HasAudio(audio)
         THEN /\ IF args.debug THEN Say({"Saved debug audio to debug_audio.wav"})
                               ELSE UNCHANGED messages
              /\ pc' = "transcribe"
         ELSE /\ Say({"No audio recorded"})
              /\ pc' = "done"
    /\ UnchangedRecorder /\ UnchangedOutput
    /\ UNCHANGED <<args, now, probed, interrupted>>
    /\ UnchangedCodec

\* transcribe_with_groq: the WAV payload is built and the request is sent
BeginTranscribe ==
    /\ pc = "transcribe"
    /\ Say({IF args.debug THEN "Sending audio to Groq API..." ELSE "Transcribing..."})
    /\ requests' = requests + 1
    /\ pc' = "api"
    /\ UnchangedRecorder
    /\ UNCHANGED <<args, now, audio, text, typed, probed, interrupted>>
    /\ UnchangedCodec

\* groq_client.audio.transcriptions.create returns: `return response.text`
ApiReturn(response_text) ==
    /\ pc = "api"
    /\ text' = Some(response_text)
    /\ pc' = "transcribed"
    /\ UnchangedRecorder
    /\ UNCHANGED <<args, now, audio, typed, requests, messages, probed, interrupted>>
    /\ UnchangedCodec

\* groq_client.audio.transcriptions.create raises: `except Exception`
ApiRaise_Retry ==
    /\ pc = "api"
    /\ Say({IF args.debug THEN "Detailed error with Groq API" ELSE "Transcription error"})
    /\ pc' = "transcribe"
    /\ UnchangedRecorder
    /\ UNCHANGED <<args, now, audio, text, typed, requests, probed, interrupted>>
    /\ UnchangedCodec

ApiRaise ==
    /\ pc = "api"
    /\ Say({IF args.debug THEN "Detailed error with Groq API" ELSE "Transcription error"})
    /\ text' = TranscribeErrorResult
    /\ pc' = "transcribed"
    /\ UnchangedRecorder
    /\ UNCHANGED <<args, now, audio, typed, requests, probed, interrupted>>
    /\ UnchangedCodec

\* `if text: ... if not args.test: type_text(text)` / "Transcription failed"
CheckText ==
    /\ pc = "transcribed"
    /\ IF Truthy(text)
         THEN /\ Say({IF args.debug THEN "Transcription: " ELSE "Typing: "})
              /\ pc' = IF ShouldType(args) THEN "type_text" ELSE "done"
         ELSE /\ Say({"Transcription failed"})
              /\ pc' = "done"
    /\ UnchangedRecorder /\ UnchangedOutput
    /\ UNCHANGED <<args, now, probed, interrupted>>
    /\ UnchangedCodec

\* type_text: `if not text: return`, then time.sleep(0.3)
TypeText ==
    /\ pc = "type_text"
    /\ pc' = IF Truthy(text) THEN "write" ELSE "done"
    /\ UnchangedRecorder /\ UnchangedOutput
    /\ UNCHANGED <<args, now, messages, probed, interrupted>>
    /\ UnchangedCodec

\* type_text: pyautogui.write(text)
Write ==
    /\ pc = "write"
    /\ typed' = Written(typed, text.val)
    /\ pc' = "done"
    /\ UnchangedRecorder
    /\ UNCHANGED <<args, now, audio, text, requests, messages, probed, interrupted>>
    /\ UnchangedCodec

(***************************************************************************)
(* KeyboardInterrupt.                                                      *)
(***************************************************************************)
TryPcs == {"try", "open", "poll", "closed", "returned", "transcribe",
           "api", "transcribed", "type_text", "write"}

\* inside main's try block: the with-block (if entered) closes the stream,
\* `except Exception` does not catch it, main's handler prints and clears
\* the flag
KeyboardInterrupt ==
    /\ pc \in TryPcs
    /\ interrupted' = TRUE
    /\ streamOpen' = FALSE
    /\ Say({"Stopped by user"})
    /\ recording' = InterruptedRecording(recording)
    /\ pc' = "done"
    /\ UnchangedOutput
    /\ LocalsDropped
    /\ UNCHANGED <<args, audio_data, now, probed, delivered, stopAt, loudAt,
                   sessionStart, captureFailed>>
    /\ UnchangedCodec

\* before the try block (input test, prompt): nothing catches it
UncaughtInterrupt ==
    /\ pc \in {"main", "test_audio", "prompt"}
    /\ Say({"Traceback: KeyboardInterrupt"})
    /\ pc' = "killed"
    /\ UnchangedRecorder /\ UnchangedOutput
    /\ UNCHANGED <<args, now, probed, interrupted>>
    /\ UnchangedCodec

Next ==
    \/ ParseArgs
    \/ TestAudioSkip
    \/ TestAudioOpenFail
    \/ \E max_level \in Levels : TestAudioProbe(max_level)
    \/ \E retry \in {"y", "n"} : Prompt(retry)
    \/ StartRecording
    \/ OpenStream
    \/ CaptureError
    \/ \E volume_norm \in Levels : AudioCallback(volume_norm)
    \/ Tick
    \/ WaitLoop
    \/ FinishRecording
    \/ CheckAudio
    \/ BeginTranscribe
    \/ \E response_text \in Texts : ApiReturn(response_text)
    \/ ApiRaise
    \/ CheckText
    \/ TypeText
    \/ Write
    \/ KeyboardInterrupt
    \/ UncaughtInterrupt

Spec == Init /\ [][Next]_vars

(***************************************************************************)
(* The same program under the scheduling the claims about termination      *)
(* assume: time passes, the backend delivers the blocks it has while the   *)
(* stream is open, and the foreground flow of the recorder keeps running.  *)
(* Errors and interrupts remain possible but are not forced.               *)
(***************************************************************************)
Deliver == \E volume_norm \in Levels : AudioCallback(volume_norm)

FairSpec ==
    /\ Spec
    /\ WF_vars(Tick)
    /\ WF_vars(Deliver)
    /\ WF_vars(OpenStream)
    /\ WF_vars(WaitLoop)
    /\ WF_vars(FinishRecording)

(***************************************************************************)
(* The 16-bit encoding of transcribe_with_groq and save_debug_audio:       *)
(* `(audio_data * 32767).astype(np.int16)`.  A sample is the fraction      *)
(* num/den; the product is exact, the conversion to an integer drops the   *)
(* fractional part (towards zero) and keeps the low 16 bits.               *)
(***************************************************************************)
\* `audio_data * 32767`
Scaled_ByRange(s) == [num |-> s.num * (Int16Max + 1), den |-> s.den]
Scaled(s) == [num |-> s.num * Int16Max, den |-> s.den]

\* float to integer: the fractional part is dropped
Truncated(q) ==
    IF q.num >= 0 THEN q.num \div q.den ELSE -((-q.num) \div q.den)

\* the value as a signed 16-bit integer
AsInt16(n) == ((n + 32768) % 65536) - 32768

\* `.astype(np.int16)`
Encoded(s) == AsInt16(Truncated(Scaled(s)))

\* the frame of one sample is written
EncodeSample ==
    /\ ~frame.done
    /\ frame' = [done |-> TRUE, val |-> Encoded(sample)]
    /\ UNCHANGED <<args, pc, recording, audio_data, last_sound_time,
                   peak_volume, now, streamOpen, pending, audio, text, typed,
                   requests, messages, probed, delivered, stopAt, loudAt,
                   sessionStart, interrupted, captureFailed, sample>>

\* the encoder alone, on every sample of Samples; the rest of the program
\* stands still at the call of transcribe_with_groq
CodecInit ==
    /\ args = [list_devices |-> FALSE, debug |-> FALSE, test |-> FALSE,
               threshold |-> 1, timeout |-> 1]
    /\ pc = "transcribe"
    /\ recording = FALSE
    /\ audio_data = <<>>
    /\ last_sound_time = 0
    /\ peak_volume = 0
    /\ now = 0
    /\ streamOpen = FALSE
    /\ pending = FALSE
    /\ audio = NoAudio
    /\ text = NoText
    /\ typed = <<>>
    /\ requests = 0
    /\ messages = {}
    /\ probed = FALSE
    /\ delivered = <<>>
    /\ stopAt = 0
    /\ loudAt = 0
    /\ sessionStart = 0
    /\ interrupted = FALSE
    /\ captureFailed = FALSE
    /\ sample \in Samples
    /\ frame = NoFrame

CodecNext == EncodeSample

CodecSpec == CodecInit /\ [][CodecNext]_vars

Abs(n) == IF n >= 0 THEN n ELSE -n

(***************************************************************************)
(* Vocabulary of the properties.                                           *)
(***************************************************************************)
\* the step is a call of audio_callback
CallbackStep == Len(delivered') = Len(delivered) + 1

\* the blocks of `blocks` whose loudness is above the threshold
LoudIn(blocks) == {i \in DOMAIN blocks : blocks[i] > args.threshold}

\* every block of `blocks` is below the threshold, except those of `but`
AllBelow(blocks, but) ==
    \A i \in DOMAIN blocks : i \in but \/ blocks[i] < args.threshold

Elapsed == now - sessionStart

(***************************************************************************)
(* C1: in a session in which every delivered block is below the silence    *)
(* threshold, recording stays true at every block delivered no later than  *)
(* timeout after the session start, and is false from the first block      *)
(* delivered later than that.                                              *)
(***************************************************************************)
C1_SilenceStopsAtTimeout ==
    [][(CallbackStep /\ AllBelow(delivered', {}))
          => (recording' <=> Elapsed <= args.timeout)]_vars

\* an all-silent session in which a first block did not stop the recording
\* and the block delivered just after the timeout did
C1_Witness ==
    /\ Len(delivered) >= 2
    /\ AllBelow(delivered, {})
    /\ stopAt = Len(delivered)
    /\ ~recording
    /\ Elapsed = args.timeout + 1

(***************************************************************************)
(* C2: in a session with one block above the threshold, taken while        *)
(* recording, and otherwise only blocks below it, a quiet block delivered  *)
(* after the loud one leaves recording true when it comes within timeout   *)
(* of the loud block's time (however long the session has lasted) and      *)
(* makes it false when it comes later than that.                           *)
(***************************************************************************)
C2_StopsTimeoutAfterLoudBlock ==
    [][(/\ CallbackStep
        /\ Cardinality(LoudIn(delivered)) = 1
        /\ AllBelow(delivered', LoudIn(delivered))
        /\ \A i \in LoudIn(delivered) : stopAt = 0 \/ stopAt > i)
          => (recording' <=> now - loudAt <= args.timeout)]_vars

\* a quiet block came within timeout of the loud block, more than timeout
\* after the session start, and the recording goes on
C2_Witness ==
    /\ Cardinality(LoudIn(delivered)) = 1
    /\ AllBelow(delivered, LoudIn(delivered))
    /\ delivered[Len(delivered)] < args.threshold
    /\ now - loudAt <= args.timeout
    /\ Elapsed > args.timeout
    /\ ~pending
    /\ recording
    /\ streamOpen

(***************************************************************************)
(* C3: under total silence the recorder still stops.  Once the session has *)
(* begun, unless a block above the threshold is delivered, the stream      *)
(* raises or the user interrupts, recording becomes false, the wait loop   *)
(* is left and record_with_silence_detection returns what was captured.    *)
(***************************************************************************)
ReturnedCapture ==
    /\ pc = "returned"
    /\ ~recording
    /\ ~streamOpen
    /\ audio = Some(audio_data)
    /\ stopAt = Len(audio_data)

C3_TotalSilenceStops ==
    (pc = "open")
        ~> (\/ LoudIn(delivered) # {}
            \/ captureFailed
            \/ interrupted
            \/ ReturnedCapture)

\* a session without any block above the threshold, error or interrupt has
\* returned its capture
C3_Witness ==
    /\ ReturnedCapture
    /\ LoudIn(delivered) = {}
    /\ ~captureFailed
    /\ ~interrupted

(***************************************************************************)
(* C4: when the transcription call raises and transcribe_with_groq returns *)
(* no result, type_text is never entered and, unless the user interrupts   *)
(* first, main reports "Transcription failed".                             *)
(***************************************************************************)
TranscriptionRaised ==
    messages \cap {"Transcription error", "Detailed error with Groq API"} # {}

C4_FailedTranscriptionTypesNothing ==
    TranscriptionRaised =>
        /\ typed = <<>>
        /\ pc \notin {"type_text", "write"}
        /\ (pc = "done" /\ ~interrupted) => "Transcription failed" \in messages

\* outside --test, a run whose transcription call raised has ended
C4_Witness ==
    /\ TranscriptionRaised
    /\ ~args.test
    /\ pc = "done"
    /\ ~interrupted

(***************************************************************************)
(* C5: with --test, type_text is never entered and pyautogui.write never   *)
(* called, whatever the transcription returned.                            *)
(***************************************************************************)
C5_TestModeNeverTypes ==
    args.test => (typed = <<>> /\ pc \notin {"type_text", "write"})

\* a --test run whose transcription returned a non-empty text has ended
C5_Witness ==
    /\ args.test
    /\ Truthy(text)
    /\ pc = "done"
    /\ ~interrupted

(***************************************************************************)
(* C6: after a KeyboardInterrupt inside main's try block (during capture   *)
(* or transcription included) the program has ended with recording false,  *)
(* the stream closed, "Stopped by user" printed and nothing typed.         *)
(***************************************************************************)
C6_InterruptUnwinds ==
    interrupted =>
        /\ pc = "done"
        /\ ~recording
        /\ ~streamOpen
        /\ "Stopped by user" \in messages
        /\ typed = <<>>

\* the interrupt arrived while blocks were being recorded
C6_Witness ==
    /\ interrupted
    /\ audio_data # <<>>
    /\ stopAt = 0
    /\ requests = 0

(***************************************************************************)
(* C7: a capture failure (the with-block of the recorder raises) is        *)
(* reported as such, the recorder returns no buffer and neither the        *)
(* transcription nor type_text is called.                                  *)
(***************************************************************************)
C7_CaptureFailureReported ==
    captureFailed =>
        /\ "Error recording audio" \in messages
        /\ audio = NoAudio
        /\ requests = 0
        /\ typed = <<>>

(***************************************************************************)
(* C8: every --test invocation (that does not just list the devices) runs  *)
(* the input-level probe, or fails to open its stream, before going on,    *)
(* and types nothing.                                                      *)
(***************************************************************************)
C8_TestRunsProbe ==
    (args.test /\ ~args.list_devices /\ pc \notin {"main", "test_audio", "killed"})
        => /\ probed \/ "Error testing audio input" \in messages
           /\ typed = <<>>

(***************************************************************************)
(* C9: while transcribe_with_groq or type_text is in progress the input    *)
(* stream is closed, recording is false and no audio_callback can run.     *)
(***************************************************************************)
C9_NoBlockingCallWhileRecording ==
    pc \in {"transcribe", "api", "type_text", "write"} =>
        /\ ~streamOpen
        /\ ~recording
        /\ ~ENABLED Deliver

\* pyautogui.write is about to be called after a transcription request
C9_Witness ==
    /\ pc = "write"
    /\ requests = 1
    /\ audio_data # <<>>

(***************************************************************************)
(* C10: a block delivered after recording became false changes neither the *)
(* buffer, nor last_sound_time, nor the flag, and a session that ends      *)
(* without an error returns exactly the blocks delivered up to and         *)
(* including the one on which the stop decision was taken.                 *)
(***************************************************************************)
C10_LateBlocksIgnored ==
    [][(CallbackStep /\ ~recording)
          => UNCHANGED <<audio_data, last_sound_time, recording>>]_vars

C10_ReturnsBlocksUpToStop ==
    (pc = "returned" /\ ~captureFailed) =>
        /\ stopAt > 0
        /\ audio = Some(SubSeq(delivered, 1, stopAt))

C10_PollIntervalHarmless == C10_LateBlocksIgnored /\ []C10_ReturnsBlocksUpToStop

\* a block was delivered between the stop decision and the closing of the
\* stream, and the recorder has returned
C10_Witness ==
    /\ pc = "returned"
    /\ ~captureFailed
    /\ stopAt > 0
    /\ Len(delivered) > stopAt

(***************************************************************************)
(* C11: the transcription service is called only when the recorder         *)
(* returned a buffer with at least one block; when the recorder returned   *)
(* none, main prints "No audio recorded", sends no request and types       *)
(* nothing.                                                                *)
(***************************************************************************)
\* record_with_silence_detection has returned to main
RecorderReturned ==
    pc \in {"returned", "transcribe", "api", "transcribed", "type_text", "write"}
        \/ (pc = "done" /\ ~interrupted /\ "Ready to record. Speak now..." \in messages)

C11_EmptyCaptureSkipsTranscription ==
    /\ (requests > 0 \/ pc = "transcribe") => (audio.some /\ Len(audio.val) >= 1)
    /\ (RecorderReturned /\ ~audio.some) =>
           /\ requests = 0
           /\ typed = <<>>
           /\ pc \in {"returned", "done"}
           /\ pc = "done" => "No audio recorded" \in messages

\* the recorder returned no buffer and main has ended
C11_Witness ==
    /\ RecorderReturned
    /\ ~audio.some
    /\ pc = "done"
    /\ "No audio recorded" \in messages

(***************************************************************************)
(* C12: the session buffer is append-only.  Every step leaves the buffer a *)
(* prefix of the new buffer (so the buffer of any state is a prefix of the *)
(* buffer of every later state), and every callback that runs while        *)
(* recording is true appends exactly its block at the end.                 *)
(***************************************************************************)
IsPrefix(a, b) == Len(a) <= Len(b) /\ SubSeq(b, 1, Len(a)) = a

C12_BufferAppendOnly ==
    [][/\ IsPrefix(audio_data, audio_data')
       /\ (CallbackStep /\ recording) =>
              audio_data' = audio_data \o <<delivered'[Len(delivered')]>>]_vars

\* a session that has appended two different blocks and goes on
C12_Witness ==
    /\ recording
    /\ streamOpen
    /\ Len(audio_data) >= 2
    /\ audio_data[1] # audio_data[2]

(***************************************************************************)
(* C13: when the transcription returns a non-empty text T outside --test   *)
(* and the user does not interrupt, pyautogui.write is called exactly once *)
(* and receives exactly T; it is never called otherwise.                   *)
(***************************************************************************)
C13_TypesExactlyTheText ==
    /\ Len(typed) <= 1
    /\ typed # <<>> => (text.some /\ text.val # "" /\ ~args.test /\ typed = <<text.val>>)
    /\ (pc = "done" /\ ~interrupted /\ text.some /\ text.val # "" /\ ~args.test)
           => typed = <<text.val>>

\* the returned text has been typed and the program has ended
C13_Witness ==
    /\ pc = "done"
    /\ text = Some("hello world")
    /\ typed = <<"hello world">>

(***************************************************************************)
(* C14: the transcription service is called at most once per invocation,   *)
(* only after the recording has ended with the stream closed, and a call   *)
(* that raised is not followed by another one.                             *)
(***************************************************************************)
C14_SingleRequestNoRetry ==
    /\ requests <= 1
    /\ requests > 0 => (~recording /\ ~streamOpen /\ stopAt > 0)
    /\ TranscriptionRaised => (requests = 1 /\ pc \in {"transcribed", "done"})

\* the single request raised and main reported the failure
C14_Witness ==
    /\ TranscriptionRaised
    /\ requests = 1
    /\ "Transcription failed" \in messages

(***************************************************************************)
(* C15: for every sample s of [-1, 1] the written frame e is a signed      *)
(* 16-bit value and e/32767 is within 1/32767 of s, that is                *)
(* |e * den - num * 32767| <= den for s = num/den.                         *)
(***************************************************************************)
C15_RoundTripWithinOneStep ==
    frame.done =>
        /\ frame.val \in -32768..32767
        /\ Abs(frame.val * sample.den - sample.num * 32767) <= sample.den

\* a negative sample whose product with 32767 is not an integer was encoded
C15_Witness ==
    /\ frame.done
    /\ sample.num < 0
    /\ frame.val * sample.den # sample.num * 32767

\* the block of the callback that the step runs
NewBlock == delivered'[Len(delivered')]

(***************************************************************************)
(* C16, as amended: while recording, a block above the threshold never     *)
(* stops the recording and always sets last_sound_time to the current      *)
(* time, however long ago the last sound was; a callback stops the         *)
(* recording only on a block that is not above the threshold (below it or  *)
(* equal to it).                                                           *)
(***************************************************************************)
C16_LoudBlockNeverStops ==
    [][(CallbackStep /\ recording) =>
          /\ NewBlock > args.threshold => (recording' /\ last_sound_time' = now)
          /\ ~recording' => NewBlock <= args.threshold]_vars

\* C16 as stated: only a block below the threshold stops the recording
C16_Original ==
    [][(CallbackStep /\ recording) =>
          /\ NewBlock > args.threshold => (recording' /\ last_sound_time' = now)
          /\ ~recording' => NewBlock < args.threshold]_vars

\* the first block of the session came later than timeout after its start,
\* was above the threshold, and the recording goes on from its time
C16_Witness ==
    /\ Len(delivered) = 1
    /\ delivered[1] > args.threshold
    /\ Elapsed > args.timeout
    /\ ~pending
    /\ recording
    /\ last_sound_time = now

(***************************************************************************)
(* C17, as amended: a block is treated as silence exactly when its         *)
(* loudness does not exceed the threshold.  While recording, a block above *)
(* the threshold sets last_sound_time and never stops; a block below or    *)
(* equal to the threshold leaves last_sound_time alone and stops the       *)
(* recording exactly when more than timeout has passed since it.           *)
(***************************************************************************)
C17_SilenceIsNotAboveThreshold ==
    [][(CallbackStep /\ recording) =>
          IF NewBlock > args.threshold
            THEN recording' /\ last_sound_time' = now
            ELSE /\ last_sound_time' = last_sound_time
                 /\ recording' <=> ~(now - last_sound_time > args.timeout)]_vars

\* C17 as stated: a block equal to the threshold is treated as sound
C17_Original ==
    [][(CallbackStep /\ recording) =>
          IF NewBlock >= args.threshold
            THEN recording' /\ last_sound_time' = now
            ELSE /\ last_sound_time' = last_sound_time
                 /\ recording' <=> ~(now - last_sound_time > args.timeout)]_vars

\* a block equal to the threshold took the stop decision
C17_Witness ==
    /\ stopAt > 0
    /\ stopAt = Len(delivered)
    /\ delivered[stopAt] = args.threshold
    /\ ~recording
    /\ streamOpen

(***************************************************************************)
(* C18, as amended: a recorder that returns without exception or interrupt *)
(* returns a non-empty buffer whose last block is the one on which the     *)
(* stop decision was taken, a block not above the threshold delivered more *)
(* than timeout after the last sound; recording goes from true to false    *)
(* only in a callback or in the interrupt handler, and the wait loop is    *)
(* left only after a callback has cleared the flag.                        *)
(***************************************************************************)
C18_ReturnEndsWithStopBlock ==
    (pc = "returned" /\ ~captureFailed) =>
        /\ audio.some
        /\ Len(audio.val) >= 1
        /\ Len(audio.val) = stopAt
        /\ audio.val[stopAt] = delivered[stopAt]
        /\ audio.val[stopAt] <= args.threshold

C18_FlagClearedOnlyByCallback ==
    [][/\ (recording /\ ~recording') =>
              \/ interrupted'
              \/ /\ CallbackStep
                 /\ NewBlock <= args.threshold
                 /\ now - loudAt > args.timeout
       /\ (pc = "poll" /\ pc' = "closed") => (stopAt > 0 /\ ~recording)]_vars

C18_StopOnlyInCallback == C18_FlagClearedOnlyByCallback /\ []C18_ReturnEndsWithStopBlock

\* C18 as stated: the last block of the returned buffer is below the threshold
C18_Original ==
    (pc = "returned" /\ ~captureFailed) =>
        /\ audio.some
        /\ Len(audio.val) >= 1
        /\ audio.val[Len(audio.val)] < args.threshold

\* the recorder returned a buffer that ends with a block equal to the
\* threshold
C18_Witness ==
    /\ pc = "returned"
    /\ ~captureFailed
    /\ audio.some
    /\ audio.val[Len(audio.val)] = args.threshold

====
